---- MODULE Spec2Model ----
(***************************************************************************)
(* Glicko-1 rating engine (class Glicko of src/src/glicko.ts, MathUtils of *)
(* src/src/utils/math-utils.ts).                                           *)
(*                                                                         *)
(* Numbers.  The program computes with IEEE doubles.  Here every number   *)
(* (a rating, an rd, a configuration field, a score, a number of days) is  *)
(* a decimal floating-point number [m, e] = m * 10^e with a mantissa of    *)
(* MantDigits digits (or 0), and every arithmetic operation truncates its  *)
(* exact result to that mantissa.  Timestamps are integers.                *)
(***************************************************************************)
EXTENDS Integers, Sequences, FiniteSets, TLC

(***************************************************************************)
(* Decimal floating point: the arithmetic of the JavaScript number type.   *)
(***************************************************************************)
MantDigits == 9

RECURSIVE Pow10(_)
Pow10(k) == IF k <= 0 THEN 1 ELSE 10 * Pow10(k - 1)

Abs(x) == IF x < 0 THEN -x ELSE x
Sgn(x) == IF x < 0 THEN -1 ELSE IF x > 0 THEN 1 ELSE 0

MantLo == Pow10(MantDigits - 1)
MantHi == Pow10(MantDigits)

F0 == [m |-> 0, e |-> 0]

\* m * 10^e with the mantissa brought to MantDigits digits (truncating).
RECURSIVE Norm(_, _)
Norm(m, e) ==
    IF m = 0 THEN F0
    ELSE IF Abs(m) >= MantHi THEN Norm(Sgn(m) * (Abs(m) \div 10), e + 1)
    ELSE IF Abs(m) < MantLo THEN Norm(m * 10, e - 1)
    ELSE [m |-> m, e |-> e]

FInt(n) == Norm(n, 0)
\* the decimal n * 10^-k
Dec(n, k) == Norm(n, -k)
FNeg(a) == [m |-> -a.m, e |-> a.e]

\* The product a * b for 0 <= a, b < 10^9 as <<hi, lo>> = hi * 10^9 + lo,
\* by three-digit limbs (the product itself does not fit the integer width).
MulFull(a, b) ==
    LET a0 == a % 1000
        a1 == (a \div 1000) % 1000
        a2 == a \div 1000000
        b0 == b % 1000
        b1 == (b \div 1000) % 1000
        b2 == b \div 1000000
        c0 == a0 * b0
        c1 == a0 * b1 + a1 * b0
        c2 == a0 * b2 + a1 * b1 + a2 * b0
        c3 == a1 * b2 + a2 * b1
        c4 == a2 * b2
        t1 == c1 + c0 \div 1000
        t2 == c2 + t1 \div 1000
    IN  <<c4 * 1000 + c3 + t2 \div 1000,
          (t2 % 1000) * 1000000 + (t1 % 1000) * 1000 + (c0 % 1000)>>

\* The float of sign s and exponent e whose mantissa is the leading MantDigits
\* digits of the product p = <<hi, lo>> of two mantissas.
MulPack(p, s, e) ==
    IF p[1] < MantLo
    THEN [m |-> s * (p[1] * 10 + (p[2] \div MantLo)), e |-> e + MantDigits - 1]
    ELSE [m |-> s * p[1], e |-> e + MantDigits]

FMul(a, b) ==
    IF a.m = 0 \/ b.m = 0 THEN F0
    ELSE MulPack(MulFull(Abs(a.m), Abs(b.m)), Sgn(a.m) * Sgn(b.m), a.e + b.e)

\* Long division: n more decimal digits of the quotient q, remainder r, by c
\* (0 <= r < c, 10^8 <= c < 2^31 / 2); the result is floor((q * c + r) * 10^n / c).
RECURSIVE DivDigits(_, _, _, _)
DivDigits(q, r, c, n) ==
    IF n = 0 THEN q
    ELSE LET c1 == c \div 10
             d0 == IF r \div c1 > 9 THEN 9 ELSE r \div c1
             r0 == 10 * (r - d0 * c1) - d0 * (c % 10)
         IN  IF r0 < 0 THEN DivDigits(10 * q + d0 - 1, r0 + c, c, n - 1)
             ELSE DivDigits(10 * q + d0, r0, c, n - 1)

\* floor(a * 10^n / c)
MantDiv(a, n, c) == DivDigits(a \div c, a % c, c, n)

\* a / b, b # 0
FDiv(a, b) ==
    IF a.m = 0 THEN F0
    ELSE LET s == Sgn(a.m) * Sgn(b.m)
         IN  IF Abs(a.m) >= Abs(b.m)
             THEN [m |-> s * MantDiv(Abs(a.m), MantDigits - 1, Abs(b.m)), e |-> a.e - b.e - (MantDigits - 1)]
             ELSE [m |-> s * MantDiv(Abs(a.m), MantDigits, Abs(b.m)), e |-> a.e - b.e - MantDigits]

FAdd(a, b) ==
    IF a.m = 0 THEN b
    ELSE IF b.m = 0 THEN a
    ELSE LET hi == IF a.e >= b.e THEN a ELSE b
             lo == IF a.e >= b.e THEN b ELSE a
             d  == hi.e - lo.e
         IN  IF d > MantDigits THEN hi
             ELSE Norm(hi.m + Sgn(lo.m) * (Abs(lo.m) \div Pow10(d)), hi.e)

FSub(a, b) == FAdd(a, FNeg(b))

\* a < b, a <= b
FLt(a, b) == FSub(a, b).m < 0
FLe(a, b) == FSub(a, b).m <= 0
FMin(a, b) == IF FLt(b, a) THEN b ELSE a

\* floor(sqrt(n)) for 0 <= n < 2^31 (Newton's iteration on integers).
RECURSIVE ISqrtFrom(_, _)
ISqrtFrom(n, x) ==
    LET y == (x + n \div x) \div 2
    IN  IF y >= x THEN x ELSE ISqrtFrom(n, y)

ISqrt(n) == IF n <= 0 THEN 0 ELSE ISqrtFrom(n, 46340)

\* floor(sqrt(m * 10^k)) for a mantissa m, from a guess x above it.
RECURSIVE MantSqrtFrom(_, _, _)
MantSqrtStep(m, k, x, y) == IF y >= x THEN x ELSE MantSqrtFrom(m, k, y)
MantSqrtFrom(m, k, x) == MantSqrtStep(m, k, x, (x + MantDiv(m, k, x)) \div 2)

\* Math.sqrt, a >= 0
FSqrt(a) ==
    IF a.m <= 0 THEN F0
    ELSE LET k == IF (a.e - (MantDigits - 1)) % 2 = 0 THEN MantDigits - 1 ELSE MantDigits
             g == (ISqrt(a.m) + 1) * (IF k = MantDigits THEN 31623 ELSE 10000)
         IN  Norm(MantSqrtFrom(a.m, k, g), (a.e - k) \div 2)

\* Math.pow(a, 2)
FSq(a) == FMul(a, a)

\* floor(a) as an integer, for |a| < 2^31
FFloor(a) ==
    IF a.e >= 0 THEN a.m * Pow10(a.e)
    ELSE IF -a.e > MantDigits THEN (IF a.m < 0 THEN -1 ELSE 0)
    ELSE a.m \div Pow10(-a.e)

\* Math.round: the nearest integer, halves towards +Infinity
FRound(a) == FFloor(FAdd(a, [m |-> 5 * MantLo, e |-> -MantDigits]))

\* Math.E, Math.PI and Math.log(10)
FE == [m |-> 271828183, e |-> -8]
FPi == [m |-> 314159265, e |-> -8]
FLn10 == [m |-> 230258509, e |-> -8]
F1 == FInt(1)

RECURSIVE FPowE(_)
FPowE(i) == IF i <= 0 THEN F1 ELSE FMul(FE, FPowE(i - 1))

\* sum of the series x^k / k! from the term t = x^(k-1) / (k-1)! on, to k = ExpTerms
ExpTerms == 12
ExpInv == [k \in 1..ExpTerms |-> FDiv(F1, FInt(k))]
RECURSIVE ExpSeries(_, _, _)
ExpAdd(x, tk, k) == FAdd(tk, ExpSeries(x, tk, k + 1))
ExpSeries(x, t, k) ==
    IF k > ExpTerms \/ t.m = 0 THEN F0
    ELSE ExpAdd(x, FMul(FMul(t, x), ExpInv[k]), k)

\* exp(y) for y >= 0 with integer part i
ExpParts(y, i) == FMul(FPowE(i), FAdd(F1, ExpSeries(FSub(y, FInt(i)), F1, 1)))
ExpOfAbs(x, v) == IF x.m < 0 THEN FDiv(F1, v) ELSE v
FAbs(a) == [m |-> Abs(a.m), e |-> a.e]

\* Math.exp
FExp(x) == ExpOfAbs(x, ExpParts(FAbs(x), FFloor(FAbs(x))))

\* Number.isInteger
IsInteger(a) == a.m = 0 \/ a.e >= 0 \/ Abs(a.m) % Pow10(-a.e) = 0

\* a has at most p digits after the decimal point
HasDecimals(a, p) == a.m = 0 \/ a.e >= -p \/ (-a.e - p <= MantDigits /\ Abs(a.m) % Pow10(-a.e - p) = 0)

(***************************************************************************)
(* MathUtils (src/src/utils/math-utils.ts)                                 *)
(***************************************************************************)
g(rd, q) ==
    LET term == FDiv(FMul(FMul(FInt(3), FSq(q)), FSq(rd)), FSq(FPi))
    IN  FDiv(F1, FSqrt(FAdd(F1, term)))

\* Math.round(num * p) / p for p = 10^places
\* Math.round(x) / p: a number with no fractional digits left is its own
\* Math.round
RoundScaled(x, p) == IF x.e >= 0 THEN FDiv(x, p) ELSE FDiv(FInt(FRound(x)), p)

RoundAt(num, p) == RoundScaled(FMul(num, p), p)

\* Number(x.toFixed(places)): the decimal string with `places` digits, read back
ToFixed(x, places) == RoundAt(x, FInt(Pow10(places)))

roundToDecimalPlaces(num, places) ==
    IF places = 0 THEN FInt(FRound(num))
    ELSE ToFixed(RoundAt(num, FInt(Pow10(places))), places)

(***************************************************************************)
(* Glicko (src/src/glicko.ts)                                              *)
(***************************************************************************)
ConfigKeys == {"initialRating", "initialRD", "inactivityConstant", "rdCeiling",
               "q", "daysPerRatingPeriod", "roundingPrecision"}

defaultConfig ==
    [initialRating      |-> FInt(1500),
     initialRD          |-> FInt(350),
     inactivityConstant |-> Dec(5, 1),
     rdCeiling          |-> FInt(350),
     q                  |-> FDiv(FLn10, FInt(400)),
     daysPerRatingPeriod |-> FInt(30),
     roundingPrecision  |-> FInt(2)]

\* The merge without `this.config.q = defaultConfig.q`
mergedConfig_keepsQ(partial) ==
    [k \in ConfigKeys |-> IF k \in DOMAIN partial THEN partial[k] ELSE defaultConfig[k]]

\* { ...defaultConfig, ...config } with q set back to the default
mergedConfig(partial) ==
    [k \in ConfigKeys |->
        IF k = "q" THEN defaultConfig.q
        ELSE IF k \in DOMAIN partial THEN partial[k] ELSE defaultConfig[k]]

\* The constructor with `< 0` for `<= 0` on daysPerRatingPeriod
constructorError_acceptsZeroPeriod(c) ==
    IF c.initialRating.m < 0 THEN "initialRating must be non-negative."
    ELSE IF c.initialRD.m < 0 THEN "initialRD must be non-negative."
    ELSE IF c.inactivityConstant.m < 0 THEN "inactivityConstant must be non-negative."
    ELSE IF c.rdCeiling.m < 0 THEN "rdCeiling must be non-negative."
    ELSE IF c.daysPerRatingPeriod.m < 0 THEN "daysPerRatingPeriod must be positive."
    ELSE IF c.roundingPrecision.m < 0 \/ ~IsInteger(c.roundingPrecision)
         THEN "roundingPrecision must be a non-negative integer."
    ELSE ""

\* The message of the error the constructor throws, "" when it throws none.
constructorError(c) ==
    IF c.initialRating.m < 0 THEN "initialRating must be non-negative."
    ELSE IF c.initialRD.m < 0 THEN "initialRD must be non-negative."
    ELSE IF c.inactivityConstant.m < 0 THEN "inactivityConstant must be non-negative."
    ELSE IF c.rdCeiling.m < 0 THEN "rdCeiling must be non-negative."
    ELSE IF c.daysPerRatingPeriod.m <= 0 THEN "daysPerRatingPeriod must be positive."
    ELSE IF c.roundingPrecision.m < 0 \/ ~IsInteger(c.roundingPrecision)
         THEN "roundingPrecision must be a non-negative integer."
    ELSE ""

\* config.roundingPrecision, an integer once the constructor has accepted it
places(c) == FFloor(c.roundingPrecision)

\* An optional value is a sequence of length 0 (undefined, null) or 1.
Absent == <<>>
Some(v) == <<v>>
IsPresent(o) == Len(o) > 0
Get(o) == o[1]

Player(rating, rd, lastPlayedMatch) ==
    [rating |-> rating, rd |-> rd, lastPlayedMatch |-> lastPlayedMatch]

NoPlayer == Player(F0, F0, Absent)

\* The outcome of a call: the message of the error thrown ("" for none), the
\* value returned, the number of console.warn lines written.
Returned(v, w) == [err |-> "", ret |-> v, warns |-> w]
Thrown(msg)    == [err |-> msg, ret |-> NoPlayer, warns |-> 0]

DaysNegative == "Days since last active cannot be negative."
PlayerRdNotPositive == "Player RD must be positive for calculations."
InitialRdNotPositive == "Initial RD must be positive."

\* initializeNewPlayer with `||` for `??`: an override of 0 gives way to the default
initializeNewPlayer_falsyDefaults(c, overrides) ==
    Player(roundToDecimalPlaces(
               IF "rating" \in DOMAIN overrides /\ overrides.rating.m # 0
               THEN overrides.rating ELSE c.initialRating,
               places(c)),
           roundToDecimalPlaces(
               IF "rd" \in DOMAIN overrides /\ overrides.rd.m # 0
               THEN overrides.rd ELSE c.initialRD,
               places(c)),
           IF "lastPlayedMatch" \in DOMAIN overrides THEN overrides.lastPlayedMatch ELSE Absent)

initializeNewPlayer(c, overrides) ==
    Player(roundToDecimalPlaces(
               IF "rating" \in DOMAIN overrides THEN overrides.rating ELSE c.initialRating,
               places(c)),
           roundToDecimalPlaces(
               IF "rd" \in DOMAIN overrides THEN overrides.rd ELSE c.initialRD,
               places(c)),
           IF "lastPlayedMatch" \in DOMAIN overrides THEN overrides.lastPlayedMatch ELSE Absent)

\* updateRDForInactivity with the never-played return ahead of the argument check
updateRDForInactivity_noopFirst(c, player, daysSinceLastActive) ==
    IF ~IsPresent(player.lastPlayedMatch) THEN Returned(player, 0)
    ELSE IF daysSinceLastActive.m < 0 THEN Thrown(DaysNegative)
    ELSE Returned([player EXCEPT !.rd = roundToDecimalPlaces(
             FMin(FSqrt(FAdd(FSq(player.rd),
                             FMul(FSq(c.inactivityConstant),
                                  FDiv(daysSinceLastActive, c.daysPerRatingPeriod)))),
                  c.rdCeiling), places(c))], 0)

\* updateRDForInactivity without the never-played return
updateRDForInactivity_alwaysInflates(c, player, daysSinceLastActive) ==
    IF daysSinceLastActive.m < 0 THEN Thrown(DaysNegative)
    ELSE Returned([player EXCEPT !.rd = roundToDecimalPlaces(
             FMin(FSqrt(FAdd(FSq(player.rd),
                             FMul(FSq(c.inactivityConstant),
                                  FDiv(daysSinceLastActive, c.daysPerRatingPeriod)))),
                  c.rdCeiling), places(c))], 0)

\* updateRDForInactivity without Math.min(.., rdCeiling)
updateRDForInactivity_unclamped(c, player, daysSinceLastActive) ==
    IF daysSinceLastActive.m < 0 THEN Thrown(DaysNegative)
    ELSE IF ~IsPresent(player.lastPlayedMatch) THEN Returned(player, 0)
    ELSE Returned([player EXCEPT !.rd = roundToDecimalPlaces(
             FSqrt(FAdd(FSq(player.rd),
                        FMul(FSq(c.inactivityConstant),
                             FDiv(daysSinceLastActive, c.daysPerRatingPeriod)))),
             places(c))], 0)

\* updateRDForInactivity counting days where it should count rating periods
updateRDForInactivity_perDay(c, player, daysSinceLastActive) ==
    IF daysSinceLastActive.m < 0 THEN Thrown(DaysNegative)
    ELSE IF ~IsPresent(player.lastPlayedMatch) THEN Returned(player, 0)
    ELSE Returned([player EXCEPT !.rd = roundToDecimalPlaces(
             FMin(FSqrt(FAdd(FSq(player.rd),
                             FMul(FSq(c.inactivityConstant), daysSinceLastActive))),
                  c.rdCeiling), places(c))], 0)

\* updateRDForInactivity returning the new RD as computed, not rounded
updateRDForInactivity_unrounded(c, player, daysSinceLastActive) ==
    IF daysSinceLastActive.m < 0 THEN Thrown(DaysNegative)
    ELSE IF ~IsPresent(player.lastPlayedMatch) THEN Returned(player, 0)
    ELSE Returned([player EXCEPT !.rd =
             FMin(FSqrt(FAdd(FSq(player.rd),
                             FMul(FSq(c.inactivityConstant),
                                  FDiv(daysSinceLastActive, c.daysPerRatingPeriod)))),
                  c.rdCeiling)], 0)

\* updateRDForInactivity clamping up only: an rd above the ceiling is left to grow
updateRDForInactivity_clampUpOnly(c, player, daysSinceLastActive) ==
    IF daysSinceLastActive.m < 0 THEN Thrown(DaysNegative)
    ELSE IF ~IsPresent(player.lastPlayedMatch) THEN Returned(player, 0)
    ELSE IF FLt(c.rdCeiling, player.rd)
         THEN Returned([player EXCEPT !.rd = roundToDecimalPlaces(
                  FSqrt(FAdd(FSq(player.rd),
                             FMul(FSq(c.inactivityConstant),
                                  FDiv(daysSinceLastActive, c.daysPerRatingPeriod)))),
                  places(c))], 0)
    ELSE Returned([player EXCEPT !.rd = roundToDecimalPlaces(
             FMin(FSqrt(FAdd(FSq(player.rd),
                             FMul(FSq(c.inactivityConstant),
                                  FDiv(daysSinceLastActive, c.daysPerRatingPeriod)))),
                  c.rdCeiling), places(c))], 0)

\* updateRDForInactivity with the ratio inverted: daysPerRatingPeriod / days,
\* which is Infinity for 0 days and leaves Math.min with the ceiling
updateRDForInactivity_invertedRatio(c, player, daysSinceLastActive) ==
    IF daysSinceLastActive.m < 0 THEN Thrown(DaysNegative)
    ELSE IF ~IsPresent(player.lastPlayedMatch) THEN Returned(player, 0)
    ELSE IF daysSinceLastActive.m = 0 /\ c.inactivityConstant.m # 0
         THEN Returned([player EXCEPT !.rd = roundToDecimalPlaces(c.rdCeiling, places(c))], 0)
    ELSE IF daysSinceLastActive.m = 0
         THEN Returned([player EXCEPT !.rd = roundToDecimalPlaces(FMin(FAbs(player.rd), c.rdCeiling), places(c))], 0)
    ELSE Returned([player EXCEPT !.rd = roundToDecimalPlaces(
             FMin(FSqrt(FAdd(FSq(player.rd),
                             FMul(FSq(c.inactivityConstant),
                                  FDiv(c.daysPerRatingPeriod, daysSinceLastActive)))),
                  c.rdCeiling), places(c))], 0)

\* updateRDForInactivity returning { rating, rd } without the spread: the
\* record comes back without lastPlayedMatch
updateRDForInactivity_dropsDate(c, player, daysSinceLastActive) ==
    IF daysSinceLastActive.m < 0 THEN Thrown(DaysNegative)
    ELSE IF ~IsPresent(player.lastPlayedMatch) THEN Returned(player, 0)
    ELSE Returned(Player(player.rating,
                         roundToDecimalPlaces(
                             FMin(FSqrt(FAdd(FSq(player.rd),
                                             FMul(FSq(c.inactivityConstant),
                                                  FDiv(daysSinceLastActive, c.daysPerRatingPeriod)))),
                                  c.rdCeiling), places(c)),
                         Absent), 0)

\* updateRDForInactivity taking the growth alone, without the prior rd:
\* sqrt(c^2 * periods)
updateRDForInactivity_growthOnly(c, player, daysSinceLastActive) ==
    IF daysSinceLastActive.m < 0 THEN Thrown(DaysNegative)
    ELSE IF ~IsPresent(player.lastPlayedMatch) THEN Returned(player, 0)
    ELSE Returned([player EXCEPT !.rd = roundToDecimalPlaces(
             FMin(FSqrt(FMul(FSq(c.inactivityConstant),
                             FDiv(daysSinceLastActive, c.daysPerRatingPeriod))),
                  c.rdCeiling), places(c))], 0)

updateRDForInactivity(c, player, daysSinceLastActive) ==
    IF daysSinceLastActive.m < 0 THEN Thrown(DaysNegative)
    ELSE IF ~IsPresent(player.lastPlayedMatch) THEN Returned(player, 0)
    ELSE LET periodsSinceLastActivity == FDiv(daysSinceLastActive, c.daysPerRatingPeriod)
             newRd == FMin(FSqrt(FAdd(FSq(player.rd),
                                      FMul(FSq(c.inactivityConstant), periodsSinceLastActivity))),
                           c.rdCeiling)
         IN  Returned([player EXCEPT !.rd = roundToDecimalPlaces(newRd, places(c))], 0)

calculateExpectedOutcome(c, playerRating, opponentRating, opponentRd) ==
    LET g_opp    == g(opponentRd, c.q)
        exponent == FMul(FMul(FNeg(g_opp), FSub(playerRating, opponentRating)), c.q)
    IN  FDiv(F1, FAdd(F1, FExp(exponent)))

\* A sum, or the message of the error thrown instead, and the warnings written.
Summed(sum, warns) == [err |-> "", val |-> sum, warns |-> warns]
NotSummed(msg)     == [err |-> msg, val |-> F0, warns |-> 0]

\* The variance factor without (1 - E): Math.pow(g_opp, 2) * E
varianceFactor_withoutComplement(g_opp, E) == FMul(FSq(g_opp), E)

\* Math.pow(g_opp, 2) * E * (1 - E)
varianceFactor(g_opp, E) == FMul(FMul(FSq(g_opp), E), FSub(F1, E))

\* The loop of sumMatchVarianceFactors from matchs[i] on, entered with the sum
\* and the number of warnings so far.
RECURSIVE varianceLoop(_, _, _, _, _, _)
varianceLoop(c, playerRating, matchs, i, sum, warns) ==
    IF i > Len(matchs) THEN Summed(sum, warns)
    ELSE IF matchs[i].opponent.rd.m <= 0
         THEN varianceLoop(c, playerRating, matchs, i + 1, sum, warns + 1)
         ELSE varianceLoop(c, playerRating, matchs, i + 1,
                  FAdd(sum, varianceFactor(
                      g(matchs[i].opponent.rd, c.q),
                      calculateExpectedOutcome(c, playerRating, matchs[i].opponent.rating,
                                               matchs[i].opponent.rd))),
                  warns)

\* sumMatchVarianceFactors throwing for an opponent of non-positive RD
sumMatchVarianceFactors_strict(c, playerRating, playerRd, matchs) ==
    IF playerRd.m <= 0 THEN NotSummed(PlayerRdNotPositive)
    ELSE IF \E i \in 1..Len(matchs) : matchs[i].opponent.rd.m <= 0
         THEN NotSummed("Opponent RD must be positive for calculations.")
    ELSE varianceLoop(c, playerRating, matchs, 1, F0, 0)

\* sumMatchVarianceFactors with the loop starting at the second match
sumMatchVarianceFactors_fromSecond(c, playerRating, playerRd, matchs) ==
    IF playerRd.m <= 0 THEN NotSummed(PlayerRdNotPositive)
    ELSE varianceLoop(c, playerRating, matchs, 2, F0,
                      IF Len(matchs) > 0 /\ matchs[1].opponent.rd.m <= 0 THEN 1 ELSE 0)

\* sumMatchVarianceFactors checking the player's RD inside the loop: an empty
\* list never reaches the check
sumMatchVarianceFactors_checksInLoop(c, playerRating, playerRd, matchs) ==
    IF Len(matchs) = 0 THEN Summed(F0, 0)
    ELSE IF playerRd.m <= 0 THEN NotSummed(PlayerRdNotPositive)
    ELSE varianceLoop(c, playerRating, matchs, 1, F0, 0)

sumMatchVarianceFactors(c, playerRating, playerRd, matchs) ==
    IF playerRd.m <= 0 THEN NotSummed(PlayerRdNotPositive)
    ELSE varianceLoop(c, playerRating, matchs, 1, F0, 0)

\* g_opp * (score - E)
weightedScore(g_opp, score, E) == FMul(g_opp, FSub(score, E))

RECURSIVE performanceLoop(_, _, _, _, _, _)
performanceLoop(c, playerRating, matchs, i, sum, warns) ==
    IF i > Len(matchs) THEN Summed(sum, warns)
    ELSE IF matchs[i].opponent.rd.m <= 0
         THEN performanceLoop(c, playerRating, matchs, i + 1, sum, warns + 1)
         ELSE performanceLoop(c, playerRating, matchs, i + 1,
                  FAdd(sum, weightedScore(
                      g(matchs[i].opponent.rd, c.q),
                      matchs[i].score,
                      calculateExpectedOutcome(c, playerRating, matchs[i].opponent.rating,
                                               matchs[i].opponent.rd))),
                  warns)

\* sumWeightedScorePerformance taking the subject's rating from the first
\* match's player record instead of its parameter
sumWeightedScorePerformance_fromRecord(c, playerRating, playerRd, matchs) ==
    IF playerRd.m <= 0 THEN NotSummed(PlayerRdNotPositive)
    ELSE performanceLoop(c, IF Len(matchs) > 0 THEN matchs[1].player.rating ELSE playerRating,
                         matchs, 1, F0, 0)

sumWeightedScorePerformance(c, playerRating, playerRd, matchs) ==
    IF playerRd.m <= 0 THEN NotSummed(PlayerRdNotPositive)
    ELSE performanceLoop(c, playerRating, matchs, 1, F0, 0)

calculateNewRating(c, initialRating, newRd, weightedScorePerformanceSum) ==
    LET newRdSquared == FSq(newRd)
        ratingChange == FMul(FMul(c.q, newRdSquared), weightedScorePerformanceSum)
    IN  FAdd(initialRating, ratingChange)

\* calculateNewRD testing the sum before the RD: a non-positive RD is returned
\* when no information was gained
calculateNewRD_sumFirst(c, initialRd, matchVarianceFactorSum) ==
    IF matchVarianceFactorSum.m <= 0 THEN Summed(initialRd, 0)
    ELSE IF initialRd.m <= 0 THEN NotSummed(InitialRdNotPositive)
    ELSE Summed(FSqrt(FDiv(F1, FAdd(FDiv(F1, FSq(initialRd)),
                                    FMul(FSq(c.q), matchVarianceFactorSum)))), 0)

\* calculateNewRD adding the information to the variance instead of the
\* precision: sqrt(RD^2 + q^2 * sum)
calculateNewRD_addsVariance(c, initialRd, matchVarianceFactorSum) ==
    IF initialRd.m <= 0 THEN NotSummed(InitialRdNotPositive)
    ELSE IF matchVarianceFactorSum.m <= 0 THEN Summed(initialRd, 0)
    ELSE Summed(FSqrt(FAdd(FSq(initialRd), FMul(FSq(c.q), matchVarianceFactorSum))), 0)

calculateNewRD(c, initialRd, matchVarianceFactorSum) ==
    IF initialRd.m <= 0 THEN NotSummed(InitialRdNotPositive)
    ELSE IF matchVarianceFactorSum.m <= 0 THEN Summed(initialRd, 0)
    ELSE LET qSquared == FSq(c.q)
             initialRdSquaredInverse == FDiv(F1, FSq(initialRd))
             dSquaredInverse == FMul(qSquared, matchVarianceFactorSum)
             newRdSquared == FDiv(F1, FAdd(initialRdSquaredInverse, dSquaredInverse))
         IN  Summed(FSqrt(newRdSquared), 0)

\* updatedPlayer computing the new rating from the rounded new RD
updatedPlayer_fromRoundedRd(c, initialRating, newRdUnrounded, weightedScorePerformanceSum, warns, now) ==
    IF newRdUnrounded.err # "" THEN Thrown(newRdUnrounded.err)
    ELSE Returned(Player(roundToDecimalPlaces(
                             calculateNewRating(c, initialRating,
                                 roundToDecimalPlaces(newRdUnrounded.val, places(c)),
                                 weightedScorePerformanceSum),
                             places(c)),
                         roundToDecimalPlaces(newRdUnrounded.val, places(c)),
                         Some(now)),
                  warns)

\* processGameResults, lines 264-272: the new rating from the unrounded new RD,
\* and the record returned.
updatedPlayer(c, initialRating, newRdUnrounded, weightedScorePerformanceSum, warns, now) ==
    IF newRdUnrounded.err # "" THEN Thrown(newRdUnrounded.err)
    ELSE Returned(Player(roundToDecimalPlaces(
                             calculateNewRating(c, initialRating, newRdUnrounded.val,
                                                weightedScorePerformanceSum),
                             places(c)),
                         roundToDecimalPlaces(newRdUnrounded.val, places(c)),
                         Some(now)),
                  warns)

\* processGameResults, line 262, given the two sums
withSums(c, initialRating, initialRd, matchVarianceFactorSum, weightedScorePerformanceSum, now) ==
    IF matchVarianceFactorSum.err # "" THEN Thrown(matchVarianceFactorSum.err)
    ELSE IF weightedScorePerformanceSum.err # "" THEN Thrown(weightedScorePerformanceSum.err)
    ELSE updatedPlayer(c, initialRating,
                       calculateNewRD(c, initialRd, matchVarianceFactorSum.val),
                       weightedScorePerformanceSum.val,
                       matchVarianceFactorSum.warns + weightedScorePerformanceSum.warns, now)

\* fromPeriodStart returning the period-start state for a non-positive RD
fromPeriodStart_guarded(c, playerAtPeriodStart, matchs, now) ==
    IF playerAtPeriodStart.err # "" THEN playerAtPeriodStart
    ELSE IF ~IsPresent(matchs) \/ Len(Get(matchs)) = 0 THEN playerAtPeriodStart
    ELSE IF playerAtPeriodStart.ret.rd.m <= 0 THEN playerAtPeriodStart
    ELSE withSums(c, playerAtPeriodStart.ret.rating, playerAtPeriodStart.ret.rd,
                  sumMatchVarianceFactors(c, playerAtPeriodStart.ret.rating,
                                          playerAtPeriodStart.ret.rd, Get(matchs)),
                  sumWeightedScorePerformance(c, playerAtPeriodStart.ret.rating,
                                              playerAtPeriodStart.ret.rd, Get(matchs)),
                  now)

\* fromPeriodStart with `matchs.length === 0` alone as the early return: a
\* null list reaches the loops
fromPeriodStart_lengthOnly(c, playerAtPeriodStart, matchs, now) ==
    IF playerAtPeriodStart.err # "" THEN playerAtPeriodStart
    ELSE IF ~IsPresent(matchs) THEN Thrown("TypeError: matchs is not iterable")
    ELSE IF Len(Get(matchs)) = 0 THEN playerAtPeriodStart
    ELSE withSums(c, playerAtPeriodStart.ret.rating, playerAtPeriodStart.ret.rd,
                  sumMatchVarianceFactors(c, playerAtPeriodStart.ret.rating,
                                          playerAtPeriodStart.ret.rd, Get(matchs)),
                  sumWeightedScorePerformance(c, playerAtPeriodStart.ret.rating,
                                              playerAtPeriodStart.ret.rd, Get(matchs)),
                  now)

\* fromPeriodStart stamping lastPlayedMatch on the early return too
fromPeriodStart_stampsAlways(c, playerAtPeriodStart, matchs, now) ==
    IF playerAtPeriodStart.err # "" THEN playerAtPeriodStart
    ELSE IF ~IsPresent(matchs) \/ Len(Get(matchs)) = 0
         THEN Returned([playerAtPeriodStart.ret EXCEPT !.lastPlayedMatch = Some(now)], 0)
    ELSE withSums(c, playerAtPeriodStart.ret.rating, playerAtPeriodStart.ret.rd,
                  sumMatchVarianceFactors(c, playerAtPeriodStart.ret.rating,
                                          playerAtPeriodStart.ret.rd, Get(matchs)),
                  sumWeightedScorePerformance(c, playerAtPeriodStart.ret.rating,
                                              playerAtPeriodStart.ret.rd, Get(matchs)),
                  now)

\* fromPeriodStart returning the period-start state when every opponent is
\* skipped, as for an empty list
fromPeriodStart_noneCounted(c, playerAtPeriodStart, matchs, now) ==
    IF playerAtPeriodStart.err # "" THEN playerAtPeriodStart
    ELSE IF ~IsPresent(matchs) \/ Len(Get(matchs)) = 0 THEN playerAtPeriodStart
    ELSE IF \A i \in 1..Len(Get(matchs)) : Get(matchs)[i].opponent.rd.m <= 0
         THEN playerAtPeriodStart
    ELSE withSums(c, playerAtPeriodStart.ret.rating, playerAtPeriodStart.ret.rd,
                  sumMatchVarianceFactors(c, playerAtPeriodStart.ret.rating,
                                          playerAtPeriodStart.ret.rd, Get(matchs)),
                  sumWeightedScorePerformance(c, playerAtPeriodStart.ret.rating,
                                              playerAtPeriodStart.ret.rd, Get(matchs)),
                  now)

\* processGameResults, lines 247-260, given the outcome of lines 241-245
fromPeriodStart(c, playerAtPeriodStart, matchs, now) ==
    IF playerAtPeriodStart.err # "" THEN playerAtPeriodStart
    ELSE IF ~IsPresent(matchs) \/ Len(Get(matchs)) = 0 THEN playerAtPeriodStart
    ELSE withSums(c, playerAtPeriodStart.ret.rating, playerAtPeriodStart.ret.rd,
                  sumMatchVarianceFactors(c, playerAtPeriodStart.ret.rating,
                                          playerAtPeriodStart.ret.rd, Get(matchs)),
                  sumWeightedScorePerformance(c, playerAtPeriodStart.ret.rating,
                                              playerAtPeriodStart.ret.rd, Get(matchs)),
                  now)

\* processGameResults with `>= 0` for `> 0`: the inactivity step runs for 0 days too
processGameResults_inflatesAtZero(c, player, matchs, daysSinceLastActive, now) ==
    fromPeriodStart(c,
        IF IsPresent(daysSinceLastActive) /\ Get(daysSinceLastActive).m >= 0
        THEN updateRDForInactivity(c, player, Get(daysSinceLastActive))
        ELSE Returned(player, 0),
        matchs, now)

\* processGameResults without the inactivity step
processGameResults_ignoresDays(c, player, matchs, daysSinceLastActive, now) ==
    fromPeriodStart(c, Returned(player, 0), matchs, now)

\* matchs is an optional list (null is Absent), daysSinceLastActive an optional
\* number, now the clock read by `new Date()`.
processGameResults(c, player, matchs, daysSinceLastActive, now) ==
    fromPeriodStart(c,
        IF IsPresent(daysSinceLastActive) /\ Get(daysSinceLastActive).m > 0
        THEN updateRDForInactivity(c, player, Get(daysSinceLastActive))
        ELSE Returned(player, 0),
        matchs, now)

\* The object passed to updateRDForInactivity, as it is when the method has
\* returned or thrown: the method spreads `player` into a new object (lines
\* 92, 98) and assigns to no field of it.
playerAfter(c, player, daysSinceLastActive) == player

\* processGameResults with `playerAtPeriodStart = player`, no copy: the
\* inactivity step's rd is written to the caller's object
argumentsAfter_inPlace(c, player, matchs, daysSinceLastActive) ==
    [player |-> IF IsPresent(daysSinceLastActive) /\ Get(daysSinceLastActive).m > 0
                THEN updateRDForInactivity(c, player, Get(daysSinceLastActive)).ret
                ELSE player,
     matchs |-> matchs]

\* The objects passed to processGameResults, as they are when it has returned
\* or thrown: it copies `player` (line 241), reads `matchs` in the two loops
\* and builds a new object to return (lines 268-272).
argumentsAfter(c, player, matchs, daysSinceLastActive) ==
    [player |-> player, matchs |-> matchs]

(***************************************************************************)
(* The engine and one caller.  The caller constructs the engine, holds one *)
(* Player record, and passes it to the engine's public methods, keeping    *)
(* the record a successful call returns (player = glicko.method(player)).  *)
(***************************************************************************)
VARIABLES
    glicko,     \* the engine: Absent until `new Glicko(..)` returns, then Some(config)
    player,     \* the caller's Player record
    origin,     \* the record the caller's history of calls started from
    last,       \* the latest call: method, arguments, outcome
    clock,      \* the wall clock
    calls       \* the number of calls made on the engine

vars == <<glicko, player, origin, last, clock, calls>>

MaxCalls == 2

NoPartial == [kk \in {} |-> F0]

\* Configurations the caller passes to the constructor.
ConfigInputs ==
    << NoPartial,
       [initialRating |-> FInt(1000), initialRD |-> FInt(300), inactivityConstant |-> FInt(30),
        rdCeiling |-> FInt(200), daysPerRatingPeriod |-> FInt(7), roundingPrecision |-> F0],
       [rdCeiling |-> Dec(350126, 3)],
       [initialRating |-> F0, initialRD |-> F0, inactivityConstant |-> F0,
        rdCeiling |-> F0, q |-> F1],
       [daysPerRatingPeriod |-> F0],
       [daysPerRatingPeriod |-> FInt(-7)],
       [initialRating |-> FInt(-1)],
       [initialRD |-> Dec(-5, 1)],
       [inactivityConstant |-> FInt(-1)],
       [rdCeiling |-> FInt(-1)],
       [roundingPrecision |-> FInt(-1)],
       [roundingPrecision |-> Dec(15, 1)] >>

\* Records the caller builds itself (the Player interface checks nothing).
PlayerInputs ==
    { Player(Dec(1500126, 3), Dec(350126, 3), Some(0)),
      Player(Dec(1600004, 3), Dec(400004, 3), Absent),
      Player(FInt(1500), FInt(-50), Some(0)),
      Player(FInt(1500), Dec(100004, 3), Some(0)) }

OverrideInputs ==
    << NoPartial,
       [rating |-> F0, lastPlayedMatch |-> Some(0)],
       [rd |-> Dec(123456, 3)] >>

DaysInputs == { FInt(-10), F0, FInt(60) }

OptionalDaysInputs == { Absent, Some(FInt(-10)), Some(F0), Some(FInt(60)) }

\* A Match record: the subject's record and the date are part of the interface
\* (player, datePlayed); the engine's caller leaves them at NoPlayer and 0 here.
Match(rating, rd, score) ==
    [player |-> NoPlayer, opponent |-> [rating |-> rating, rd |-> rd], score |-> score,
     datePlayed |-> 0]

Won   == Match(FInt(1200), FInt(150), F1)
Lost  == Match(FInt(1500), FInt(350), F0)
Bad   == Match(FInt(1600), F0, F0)

MatchInputs ==
    { Absent, Some(<<>>), Some(<<Bad>>), Some(<<Won, Bad, Lost>>) }

NoCall ==
    [method |-> "", options |-> NoPartial, player |-> NoPlayer, matchs |-> Absent,
     days |-> Absent, err |-> "", ret |-> NoPlayer, warns |-> 0, at |-> 0,
     config |-> Absent, after |-> [player |-> NoPlayer, matchs |-> Absent],
     sum |-> F0, val |-> F0]

\* The call returns or throws: the caller keeps the record returned.  options
\* is the object passed to the constructor or to initializeNewPlayer, config
\* the engine's configuration when the call began, after the argument objects
\* when it ended.
Outcome(method, options, arg, matchs, days, out, after) ==
    /\ last' = [method |-> method, options |-> options, player |-> arg, matchs |-> matchs,
                days |-> days, err |-> out.err, ret |-> out.ret, warns |-> out.warns,
                at |-> clock, config |-> glicko, after |-> after, sum |-> F0, val |-> F0]
    /\ player' = IF out.err = "" /\ method # "constructor" THEN out.ret ELSE player

Init ==
    /\ glicko = Absent
    /\ player \in PlayerInputs
    /\ origin = player
    /\ last = NoCall
    /\ clock = 1
    /\ calls = 0

Constructed(config, c, e) ==
    /\ glicko' = IF e = "" THEN Some(c) ELSE Absent
    /\ Outcome("constructor", config, NoPlayer, Absent, Absent,
               IF e = "" THEN Returned(NoPlayer, 0) ELSE Thrown(e),
               [player |-> NoPlayer, matchs |-> Absent])

\* new Glicko(config)
Construct(i) ==
    /\ glicko = Absent
    /\ last.method = ""
    /\ Constructed(ConfigInputs[i], mergedConfig(ConfigInputs[i]),
                   constructorError(mergedConfig(ConfigInputs[i])))
    /\ UNCHANGED <<origin, clock, calls>>

\* player = glicko.initializeNewPlayer(overrides)
InitializeNewPlayer(i) ==
    /\ IsPresent(glicko)
    /\ calls < MaxCalls
    /\ Outcome("initializeNewPlayer", OverrideInputs[i], NoPlayer, Absent, Absent,
               Returned(initializeNewPlayer(Get(glicko), OverrideInputs[i]), 0),
               [player |-> NoPlayer, matchs |-> Absent])
    /\ origin' = player'
    /\ calls' = calls + 1
    /\ UNCHANGED <<glicko, clock>>

\* player = glicko.updateRDForInactivity(player, days)
UpdateRDForInactivity(days) ==
    /\ IsPresent(glicko)
    /\ calls < MaxCalls
    /\ Outcome("updateRDForInactivity", NoPartial, player, Absent, Some(days),
               updateRDForInactivity(Get(glicko), player, days),
               [player |-> playerAfter(Get(glicko), player, days), matchs |-> Absent])
    /\ calls' = calls + 1
    /\ UNCHANGED <<glicko, origin, clock>>

\* player = glicko.processGameResults(player, matchs, days); the clock has
\* moved on by the time of the next call.
ProcessGameResults(matchs, days) ==
    /\ IsPresent(glicko)
    /\ calls < MaxCalls
    /\ Outcome("processGameResults", NoPartial, player, matchs, days,
               processGameResults(Get(glicko), player, matchs, days, clock),
               argumentsAfter(Get(glicko), player, matchs, days))
    /\ clock' = clock + 1
    /\ calls' = calls + 1
    /\ UNCHANGED <<glicko, origin>>

Next ==
    \/ \E i \in 1..Len(ConfigInputs) : Construct(i)
    \/ \E i \in 1..Len(OverrideInputs) : InitializeNewPlayer(i)
    \/ \E days \in DaysInputs : UpdateRDForInactivity(days)
    \/ \E matchs \in MatchInputs, days \in OptionalDaysInputs : ProcessGameResults(matchs, days)

Spec == Init /\ [][Next]_vars

(***************************************************************************)
(* The engine's methods called one at a time on a fresh engine, as the     *)
(* unit tests call them: the private helpers through glicko['name'](..),   *)
(* processGameResults on lists of games built for the case.  The caller's  *)
(* record is the subject; each run makes one call.                         *)
(***************************************************************************)
\* Subjects of the unit tests (tests/glicko.test.ts, the symmetric pair and the
\* multi-game subject) beside the caller's records of PlayerInputs.
SubjectInputs ==
    PlayerInputs \cup { Player(FInt(224), FInt(350), Absent),
                        Player(FInt(406), FInt(350), Absent),
                        Player(Dec(103414, 2), Dec(31130, 2), Some(0)),
                        Player(FInt(1500), F0, Some(0)) }

\* The number a helper returns or the error it throws; it returns no record
\* and the caller's record stays as it is.  sum is the number passed to
\* calculateNewRD.
Helper(method, arg, matchs, sum, out) ==
    /\ last' = [method |-> method, options |-> NoPartial, player |-> arg, matchs |-> matchs,
                days |-> Absent, err |-> out.err, ret |-> NoPlayer, warns |-> out.warns,
                at |-> clock, config |-> glicko,
                after |-> [player |-> arg, matchs |-> matchs], sum |-> sum, val |-> out.val]
    /\ calls' = calls + 1
    /\ UNCHANGED <<glicko, player, origin, clock>>

Drawn == Match(FInt(1700), FInt(300), Dec(5, 1))

\* A loss to an opponent rated thousands of points higher: almost expected,
\* so almost no information
Distant == Match(FInt(5500), FInt(350), F0)

\* A game record as the tests build it: the subject and the date filled in.
Labelled(m, subject, datePlayed) ==
    [m EXCEPT !.player = subject, !.datePlayed = datePlayed]

\* Lists of games: none, one, one with a skipped opponent, three, and three
\* with the subject and the date filled in.
GamesInputs ==
    { <<>>, <<Won>>, <<Bad>>, <<Distant>>, <<Won, Bad, Lost>>, <<Won, Lost, Drawn>>,
      << Labelled(Won, Player(FInt(1500), FInt(200), Absent), 3),
         Labelled(Drawn, Player(FInt(1500), FInt(200), Absent), 5),
         Labelled(Bad, Player(FInt(1500), FInt(-50), Absent), 5) >> }

OpponentRatingInputs == { FInt(406), FInt(1500), Dec(1699996, 3) }

ScoreInputs == { F0, Dec(5, 1), F1 }

\* Information sums passed to calculateNewRD
SumInputs == { Dec(-5, 1), F0, Dec(1, 4), Dec(5, 2), Dec(25, 2), FInt(2) }

\* The configurations of ConfigInputs and one that rounds to 6 decimals, fine
\* enough for the last digits of a sum to reach the values returned
UnitConfigInputs == ConfigInputs \o << [roundingPrecision |-> FInt(6)] >>

UnitInit ==
    /\ glicko = Absent
    /\ player \in SubjectInputs
    /\ origin = player
    /\ last = NoCall
    /\ clock = 1
    /\ calls = 0

\* new Glicko(config)
UnitConstruct(i) ==
    /\ glicko = Absent
    /\ last.method = ""
    /\ Constructed(UnitConfigInputs[i], mergedConfig(UnitConfigInputs[i]),
                   constructorError(mergedConfig(UnitConfigInputs[i])))
    /\ UNCHANGED <<origin, clock, calls>>

\* glicko['sumMatchVarianceFactors'](player.rating, player.rd, matchs)
SumMatchVarianceFactors(matchs) ==
    /\ IsPresent(glicko)
    /\ calls = 0
    /\ Helper("sumMatchVarianceFactors", player, Some(matchs), F0,
              sumMatchVarianceFactors(Get(glicko), player.rating, player.rd, matchs))

\* glicko['sumWeightedScorePerformance'](player.rating, player.rd, matchs)
SumWeightedScorePerformance(matchs) ==
    /\ IsPresent(glicko)
    /\ calls = 0
    /\ Helper("sumWeightedScorePerformance", player, Some(matchs), F0,
              sumWeightedScorePerformance(Get(glicko), player.rating, player.rd, matchs))

\* glicko['calculateNewRD'](player.rd, sum)
CalculateNewRD(sum) ==
    /\ IsPresent(glicko)
    /\ calls = 0
    /\ Helper("calculateNewRD", player, Absent, sum,
              calculateNewRD(Get(glicko), player.rd, sum))

\* One game against an opponent of the subject's own rd, processed from the
\* subject's side: glicko.processGameResults(player, [game])
PlayGame(opponentRating, score) ==
    /\ calls = 0
    /\ ProcessGameResults(Some(<<Match(opponentRating, player.rd, score)>>), Absent)

\* glicko.processGameResults(player, matchs, days)
PlayGames(matchs, days) ==
    /\ calls = 0
    /\ ProcessGameResults(Some(matchs), days)

UnitNext ==
    \/ \E i \in 1..Len(UnitConfigInputs) : UnitConstruct(i)
    \/ \E matchs \in GamesInputs : SumMatchVarianceFactors(matchs)
    \/ \E matchs \in GamesInputs : SumWeightedScorePerformance(matchs)
    \/ \E sum \in SumInputs : CalculateNewRD(sum)
    \/ \E opponentRating \in OpponentRatingInputs, score \in ScoreInputs :
           PlayGame(opponentRating, score)
    \/ \E matchs \in GamesInputs, days \in {Absent, Some(FInt(60))} : PlayGames(matchs, days)

UnitSpec == UnitInit /\ [][UnitNext]_vars

(***************************************************************************)
(* Vocabulary of the properties.  `last` is the latest call: its argument  *)
(* record, its match list, its days, and what it returned or threw.        *)
(***************************************************************************)
\* The specification's error kinds, by the message of the Error thrown
InvalidArgument(err) == err = DaysNegative
InvalidState(err) == err \in {PlayerRdNotPositive, InitialRdNotPositive}

Inflated  == last.method = "updateRDForInactivity"
Processed == last.method = "processGameResults"
Succeeded == last.err = ""
NoMatches == ~IsPresent(last.matchs) \/ Len(Get(last.matchs)) = 0
NegativeDays == IsPresent(last.days) /\ Get(last.days).m < 0
PositiveDays == IsPresent(last.days) /\ Get(last.days).m > 0
NeverPlayed == ~IsPresent(last.player.lastPlayedMatch)

Rounded(x) == HasDecimals(x, places(Get(glicko)))

\* a and b agree to within one part in 10^7: equal up to the rounding of the
\* floating-point operations that led to them
Agree(a, b) == FLe(FAbs(FSub(a, b)), FMul(FAbs(b), FDiv(F1, FInt(Pow10(7)))))

\* The state processGameResults starts the period from: the argument, or what
\* updateRDForInactivity makes of it when daysSinceLastActive > 0.
PeriodStart ==
    IF PositiveDays
    THEN updateRDForInactivity(Get(glicko), last.player, Get(last.days)).ret
    ELSE last.player

(***************************************************************************)
(* C1                                                                      *)
(***************************************************************************)
\* C1: every processGameResults call whose daysSinceLastActive is negative
\* raises InvalidArgument, whatever the state and the match list.
C1_NegativeDaysRejected ==
    (Processed /\ NegativeDays) => InvalidArgument(last.err)

C3_NonPositiveRdRejected ==
    (Processed /\ PeriodStart.rd.m <= 0) => InvalidState(last.err)

\* C3, amended: processGameResults raises InvalidState whenever the
\* period-start rd is <= 0 and the match list is non-empty.
C3_NonPositiveRdRejectedWithMatches ==
    (Processed /\ PeriodStart.rd.m <= 0 /\ ~NoMatches) => InvalidState(last.err)

\* A rating period with a match was processed for a player of non-positive rd.
C3_Witness ==
    /\ Processed /\ ~NoMatches
    /\ PeriodStart.rd.m <= 0
    /\ InvalidState(last.err)

(***************************************************************************)
(* C4                                                                      *)
(***************************************************************************)
\* C4: with the match list empty or absent, processGameResults returns the
\* period-start state: the input's rating and lastPlayedMatch, and the input's
\* rd, or the rd of updateRDForInactivity(player, days) when days > 0.
C4_NoMatchesReturnsPeriodStart ==
    (Processed /\ NoMatches)
    => /\ Succeeded
       /\ last.ret.rating = last.player.rating
       /\ last.ret.lastPlayedMatch = last.player.lastPlayedMatch
       /\ last.ret.rd = IF PositiveDays
                        THEN updateRDForInactivity(Get(glicko), last.player, Get(last.days)).ret.rd
                        ELSE last.player.rd

\* A period without matches was processed after an inactivity that changed the rd.
C4_Witness ==
    /\ Processed /\ NoMatches /\ PositiveDays /\ Succeeded
    /\ last.ret.rd # last.player.rd

(***************************************************************************)
(* C5                                                                      *)
(***************************************************************************)
\* C5: a successful processGameResults returns lastPlayedMatch = the clock's
\* time of the call when the match list is non-empty, whatever the input's
\* lastPlayedMatch, and the input's lastPlayedMatch, which is not the time of
\* the call, when the list is empty or absent.
C5_StampedIffMatches ==
    (Processed /\ Succeeded)
    => /\ ~NoMatches => last.ret.lastPlayedMatch = Some(last.at)
       /\ NoMatches => /\ last.ret.lastPlayedMatch = last.player.lastPlayedMatch
                       /\ last.ret.lastPlayedMatch # Some(last.at)

\* A period with matches was processed for a player who had played before.
C5_Witness ==
    /\ Processed /\ Succeeded /\ ~NoMatches
    /\ ~NeverPlayed
    /\ last.ret.lastPlayedMatch = Some(last.at)
    /\ last.ret.lastPlayedMatch # last.player.lastPlayedMatch

C7_CeilingIsMaximum ==
    (IsPresent(glicko) /\ FLe(origin.rd, Get(glicko).rdCeiling))
    => FLe(player.rd, Get(glicko).rdCeiling)

(***************************************************************************)
(* C8                                                                      *)
(***************************************************************************)
\* C8: updateRDForInactivity raises InvalidArgument for every negative
\* daysSinceLastActive, also when lastPlayedMatch is absent.
C8_InflateRejectsNegativeDays ==
    (Inflated /\ NegativeDays) => InvalidArgument(last.err)

\* Negative days were passed for a player who never played.
C8_Witness ==
    Inflated /\ NegativeDays /\ NeverPlayed /\ InvalidArgument(last.err)

(***************************************************************************)
(* C9                                                                      *)
(***************************************************************************)
\* C9: with lastPlayedMatch absent and d >= 0, updateRDForInactivity returns
\* the same rating, the same rd up to rounding to roundingPrecision, and
\* lastPlayedMatch still absent, also when the rd exceeds rdCeiling.
C9_NeverPlayedUnchanged ==
    (Inflated /\ ~NegativeDays /\ NeverPlayed)
    => /\ Succeeded
       /\ last.ret.rating = last.player.rating
       /\ roundToDecimalPlaces(last.ret.rd, places(Get(glicko)))
            = roundToDecimalPlaces(last.player.rd, places(Get(glicko)))
       /\ ~IsPresent(last.ret.lastPlayedMatch)

\* A never-played record with an rd above the ceiling went through 60 idle days.
C9_Witness ==
    /\ Inflated /\ Succeeded /\ NeverPlayed
    /\ Get(last.days).m > 0
    /\ FLt(Get(glicko).rdCeiling, last.player.rd)
    /\ FLt(Get(glicko).rdCeiling, last.ret.rd)

(***************************************************************************)
(* C10                                                                     *)
(***************************************************************************)
\* C10: with lastPlayedMatch present and d >= 0, updateRDForInactivity returns
\* the input with only rd replaced, by
\* round(min(sqrt(rd^2 + inactivityConstant^2 * d / daysPerRatingPeriod), rdCeiling)),
\* rating and lastPlayedMatch being those of the input.
C10_InflationFormula ==
    (Inflated /\ ~NegativeDays /\ ~NeverPlayed)
    => /\ Succeeded
       /\ last.ret.rating = last.player.rating
       /\ last.ret.lastPlayedMatch = last.player.lastPlayedMatch
       /\ last.ret.rd =
            roundToDecimalPlaces(
                FMin(FSqrt(FAdd(FMul(last.player.rd, last.player.rd),
                                FMul(FMul(Get(glicko).inactivityConstant,
                                          Get(glicko).inactivityConstant),
                                     FDiv(Get(last.days), Get(glicko).daysPerRatingPeriod)))),
                     Get(glicko).rdCeiling),
                places(Get(glicko)))

\* The rd grew through idle days and stayed below the ceiling.
C10_Witness ==
    /\ Inflated /\ Succeeded /\ ~NeverPlayed
    /\ Get(last.days).m > 0
    /\ FLt(last.player.rd, last.ret.rd)
    /\ FLt(last.ret.rd, Get(glicko).rdCeiling)

ElapsedDays == << F0, FInt(1), FInt(30), FInt(60), FInt(365) >>

\* rds[i] <= rds[j] whenever i <= j
NonDecreasing(rds) ==
    \A i, j \in 1..Len(rds) : i <= j => FLe(rds[i], rds[j])

\* C12: for the same record and 0 <= d1 <= d2, the rd updateRDForInactivity
\* returns for d1 is at most the rd it returns for d2.
C12_MonotoneInElapsedTime ==
    IsPresent(glicko)
    => NonDecreasing(<< updateRDForInactivity(Get(glicko), player, ElapsedDays[1]).ret.rd,
                        updateRDForInactivity(Get(glicko), player, ElapsedDays[2]).ret.rd,
                        updateRDForInactivity(Get(glicko), player, ElapsedDays[3]).ret.rd,
                        updateRDForInactivity(Get(glicko), player, ElapsedDays[4]).ret.rd,
                        updateRDForInactivity(Get(glicko), player, ElapsedDays[5]).ret.rd >>)

\* 60 idle days gave a larger rd than 30 idle days give the same record.
C12_Witness ==
    /\ Inflated /\ Succeeded /\ ~NeverPlayed
    /\ last.days = Some(FInt(60))
    /\ FLt(updateRDForInactivity(Get(glicko), last.player, FInt(30)).ret.rd, last.ret.rd)

(***************************************************************************)
(* C13, C14                                                                *)
(***************************************************************************)
\* Two outcomes are the same: the same error, or the same rating and rd.
SameResult(a, b) ==
    /\ a.err = b.err
    /\ a.err = "" => (a.ret.rating = b.ret.rating /\ a.ret.rd = b.ret.rd)

\* processGameResults(record, matchs) of the latest call's match list, at the
\* latest call's time, without the days argument
WithoutDays(record) ==
    processGameResults(Get(glicko), record, last.matchs, Absent, last.at)

\* processGameResults(updateRDForInactivity(player, days), matchs), given the
\* outcome of the inner call
ManuallyInflated(inflated) ==
    IF inflated.err # "" THEN inflated ELSE WithoutDays(inflated.ret)

\* C13: with daysSinceLastActive omitted, or 0, or with lastPlayedMatch absent,
\* processGameResults returns the rating and rd of
\* processGameResults(player, matchs).
C13_NoInflationWithoutElapsedDays ==
    (Processed /\ (~IsPresent(last.days) \/ Get(last.days).m = 0 \/ NeverPlayed))
    => SameResult(last, WithoutDays(last.player))

\* A record that 0 idle days would have rounded was processed with 0 days.
C13_Witness ==
    /\ Processed /\ Succeeded /\ ~NoMatches /\ ~NeverPlayed
    /\ last.days = Some(F0)
    /\ updateRDForInactivity(Get(glicko), last.player, F0).ret.rd # last.player.rd

\* C14 as stated: for every days >= 0, processGameResults(player, matchs, days)
\* has the outcome of
\* processGameResults(updateRDForInactivity(player, days), matchs).
C14_CombinedIsManual ==
    (Processed /\ IsPresent(last.days) /\ ~NegativeDays)
    => SameResult(last, ManuallyInflated(
                            updateRDForInactivity(Get(glicko), last.player, Get(last.days))))

\* C14, amended: the same for every days > 0.
C14_CombinedIsManualForPositiveDays ==
    (Processed /\ PositiveDays)
    => SameResult(last, ManuallyInflated(
                            updateRDForInactivity(Get(glicko), last.player, Get(last.days))))

\* Matches were processed after idle days that changed the rd.
C14_Witness ==
    /\ Processed /\ Succeeded /\ PositiveDays /\ ~NoMatches /\ ~NeverPlayed
    /\ PeriodStart.rd # last.player.rd

(***************************************************************************)
(* C15                                                                     *)
(***************************************************************************)
Constructing == last.method = "constructor"

\* The specification's ConfigurationInvalid, by the message of the Error thrown
ConfigurationInvalid(err) ==
    err \in {"initialRating must be non-negative.",
             "initialRD must be non-negative.",
             "inactivityConstant must be non-negative.",
             "rdCeiling must be non-negative.",
             "daysPerRatingPeriod must be positive.",
             "roundingPrecision must be a non-negative integer."}

\* The merged configuration c is one the specification rejects.
Unacceptable(c) ==
    \/ c.initialRating.m < 0
    \/ c.initialRD.m < 0
    \/ c.inactivityConstant.m < 0
    \/ c.rdCeiling.m < 0
    \/ c.daysPerRatingPeriod.m <= 0
    \/ c.roundingPrecision.m < 0
    \/ ~IsInteger(c.roundingPrecision)

\* C15: the constructor fails if and only if the merged configuration has a
\* negative initialRating, initialRD, inactivityConstant or rdCeiling, a
\* daysPerRatingPeriod <= 0, or a negative or non-integral roundingPrecision;
\* when it fails there is no engine, when it does not there is one.
C15_ConstructionFailsIffInvalid ==
    Constructing
    => /\ ConfigurationInvalid(last.err) <=> Unacceptable(mergedConfig(last.options))
       /\ last.err = "" <=> ~Unacceptable(mergedConfig(last.options))
       /\ IsPresent(glicko) <=> last.err = ""

\* A configuration with 0 in the four non-negative fields was accepted.
C15_Witness ==
    /\ Constructing /\ last.err = "" /\ IsPresent(glicko)
    /\ "initialRating" \in DOMAIN last.options
    /\ Get(glicko).initialRating.m = 0
    /\ Get(glicko).initialRD.m = 0
    /\ Get(glicko).inactivityConstant.m = 0
    /\ Get(glicko).rdCeiling.m = 0

(***************************************************************************)
(* C16                                                                     *)
(***************************************************************************)
\* C16: every engine constructed has rdCeiling >= initialRD.
C16_CeilingNotBelowInitialRD ==
    IsPresent(glicko) => FLe(Get(glicko).initialRD, Get(glicko).rdCeiling)

(***************************************************************************)
(* C17                                                                     *)
(***************************************************************************)
\* The documented defaults of the options a caller can set
DocumentedDefaults ==
    [initialRating      |-> FInt(1500),
     initialRD          |-> FInt(350),
     inactivityConstant |-> Dec(5, 1),
     rdCeiling          |-> FInt(350),
     daysPerRatingPeriod |-> FInt(30),
     roundingPrecision  |-> FInt(2)]

\* C17: in every engine constructed, q is ln(10)/400 whatever q the caller
\* supplied, every other option supplied has the caller's value, and every
\* option omitted has its default.
C17_MergedConfiguration ==
    (Constructing /\ last.err = "")
    => /\ Get(glicko).q = FDiv(FLn10, FInt(400))
       /\ \A k \in DOMAIN DocumentedDefaults :
              Get(glicko)[k] = IF k \in DOMAIN last.options
                               THEN last.options[k]
                               ELSE DocumentedDefaults[k]

\* The caller supplied a q and some options, and the engine has another q.
C17_Witness ==
    /\ Constructing /\ last.err = ""
    /\ "q" \in DOMAIN last.options
    /\ "rdCeiling" \in DOMAIN last.options
    /\ "daysPerRatingPeriod" \notin DOMAIN last.options
    /\ Get(glicko).q # last.options.q

(***************************************************************************)
(* C18                                                                     *)
(***************************************************************************)
Initialized == last.method = "initializeNewPlayer"

\* C18: initializeNewPlayer never fails; the rating and the rd it returns are
\* the override when one is supplied, 0 included, and config.initialRating /
\* config.initialRD otherwise, rounded to roundingPrecision; lastPlayedMatch
\* is the override's, absent without one.
C18_NewPlayerFromOverridesOrDefaults ==
    Initialized
    => /\ Succeeded
       /\ last.ret.rating =
            roundToDecimalPlaces(IF "rating" \in DOMAIN last.options
                                 THEN last.options.rating
                                 ELSE Get(glicko).initialRating, places(Get(glicko)))
       /\ last.ret.rd =
            roundToDecimalPlaces(IF "rd" \in DOMAIN last.options
                                 THEN last.options.rd
                                 ELSE Get(glicko).initialRD, places(Get(glicko)))
       /\ Rounded(last.ret.rating) /\ Rounded(last.ret.rd)
       /\ last.ret.lastPlayedMatch =
            IF "lastPlayedMatch" \in DOMAIN last.options
            THEN last.options.lastPlayedMatch ELSE Absent

\* A rating override of 0 was honoured by an engine whose initialRating is not 0.
C18_Witness ==
    /\ Initialized /\ Succeeded
    /\ "rating" \in DOMAIN last.options
    /\ last.options.rating.m = 0
    /\ last.ret.rating.m = 0
    /\ Get(glicko).initialRating.m # 0

Valid(matchs) == SelectSeq(matchs, LAMBDA m : m.opponent.rd.m > 0)
Skipped(matchs) == SelectSeq(matchs, LAMBDA m : m.opponent.rd.m <= 0)

\* An aggregation over matchs gave the sum over the valid matches alone, no
\* error, and one diagnostic for each match skipped.
SkipsOnly(sum, sumOverValid, matchs) ==
    /\ sum.err = ""
    /\ sumOverValid.err = ""
    /\ sum.val = sumOverValid.val
    /\ sum.warns = Len(Skipped(matchs))
    /\ sumOverValid.warns = 0

\* C20: for a player of positive period-start rd, each of the two sums over a
\* match list equals the sum over its matches of opponent rd > 0, no error is
\* raised, each aggregation writes one diagnostic for each match skipped, and
\* the processGameResults call two.
C20_BadOpponentsAreSkipped ==
    (Processed /\ ~NoMatches /\ PeriodStart.rd.m > 0)
    => /\ SkipsOnly(sumMatchVarianceFactors(Get(glicko), PeriodStart.rating, PeriodStart.rd,
                                            Get(last.matchs)),
                    sumMatchVarianceFactors(Get(glicko), PeriodStart.rating, PeriodStart.rd,
                                            Valid(Get(last.matchs))),
                    Get(last.matchs))
       /\ SkipsOnly(sumWeightedScorePerformance(Get(glicko), PeriodStart.rating,
                                                PeriodStart.rd, Get(last.matchs)),
                    sumWeightedScorePerformance(Get(glicko), PeriodStart.rating,
                                                PeriodStart.rd, Valid(Get(last.matchs))),
                    Get(last.matchs))
       /\ Succeeded
       /\ last.warns = 2 * Len(Skipped(Get(last.matchs)))

\* A list of two valid matches and one of opponent rd 0 between them changed
\* the rd, with two diagnostics.
C20_Witness ==
    /\ Processed /\ Succeeded
    /\ IsPresent(last.matchs)
    /\ Len(Valid(Get(last.matchs))) = 2
    /\ Len(Skipped(Get(last.matchs))) = 1
    /\ last.warns = 2
    /\ last.ret.rd # PeriodStart.rd
(***************************************************************************)
(* C21                                                                     *)
(***************************************************************************)
\* The latest call processed one game, without inactivity, against an
\* opponent whose rd equals the subject's.
SingleGame ==
    /\ Processed /\ IsPresent(last.matchs) /\ ~IsPresent(last.days)
    /\ Len(Get(last.matchs)) = 1
    /\ Get(last.matchs)[1].opponent.rd = last.player.rd

\* The same game processed from the opponent's side: the opponent as the
\* subject, the subject as the opponent, the score 1 - s.
OtherSide ==
    processGameResults(Get(glicko),
        Player(Get(last.matchs)[1].opponent.rating, Get(last.matchs)[1].opponent.rd, Absent),
        Some(<<Match(last.player.rating, last.player.rd,
                     FSub(F1, Get(last.matchs)[1].score))>>),
        Absent, last.at)

\* The rating changes of the two sides
ChangeOf(before, after) == FSub(after.rating, before.rating)

Opposite(changeA, changeB) == changeA = FNeg(changeB)

\* The two changes cancel to within one unit of the last rounded decimal, or
\* to within one part in 10^7 of the ratings where that unit is finer than
\* the arithmetic.
WithinOneStep(changeA, changeB, ratingA, ratingB) ==
    \/ FLe(FAbs(FAdd(changeA, changeB)), FDiv(F1, FInt(Pow10(places(Get(glicko))))))
    \/ FLe(FAbs(FAdd(changeA, changeB)),
           FMul(FAdd(FAbs(ratingA), FAbs(ratingB)), FDiv(F1, FInt(Pow10(7)))))

MirrorsWith(other) ==
    /\ other.err = ""
    /\ other.ret.rd = last.ret.rd
    /\ Opposite(ChangeOf(last.player, last.ret),
                ChangeOf(Get(last.matchs)[1].opponent, other.ret))

MirrorsUpToRoundingWith(other) ==
    /\ other.err = ""
    /\ Agree(other.ret.rd, last.ret.rd)
    /\ WithinOneStep(ChangeOf(last.player, last.ret),
                     ChangeOf(Get(last.matchs)[1].opponent, other.ret),
                     last.ret.rating, other.ret.rating)
    /\ places(Get(glicko)) <= 2 => other.ret.rd = last.ret.rd
    /\ (places(Get(glicko)) <= 2
          /\ Rounded(last.player.rating) /\ Rounded(Get(last.matchs)[1].opponent.rating))
        => Opposite(ChangeOf(last.player, last.ret),
                    ChangeOf(Get(last.matchs)[1].opponent, other.ret))

InformationSum(start) ==
    sumMatchVarianceFactors(Get(glicko), start.rating, start.rd, Get(last.matchs)).val

PerformanceSum(start) ==
    sumWeightedScorePerformance(Get(glicko), start.rating, start.rd, Get(last.matchs)).val

\* round(priorRating + q * rd^2 * performanceSum)
RatingFrom(priorRating, rd, performanceSum) ==
    roundToDecimalPlaces(
        FAdd(priorRating, FMul(FMul(Get(glicko).q, FSq(rd)), performanceSum)),
        places(Get(glicko)))

ReturnedFromNewRd(start, newRd, performanceSum) ==
    /\ last.ret.rd = roundToDecimalPlaces(newRd, places(Get(glicko)))
    /\ last.ret.rating = RatingFrom(start.rating, newRd, performanceSum)

ReturnedFromSums(start, informationSum, performanceSum) ==
    ReturnedFromNewRd(start, calculateNewRD(Get(glicko), start.rd, informationSum).val,
                      performanceSum)

\* C22: with a non-empty match list processGameResults takes both sums at the
\* period-start rating and rd (after any inflation), then the new rd from the
\* information sum, then the new rating as priorRating + q * RD'^2 *
\* performanceSum with the unrounded RD'; only the two final values are
\* rounded.  The test's subject 1034.14/311.30, inactive for 60 days and
\* winning against 1200/150, gets 1263.13/250.32.
C22_SumsThenRdThenRating ==
    /\ (Processed /\ Succeeded /\ ~NoMatches)
        => ReturnedFromSums(PeriodStart, InformationSum(PeriodStart), PerformanceSum(PeriodStart))
    /\ (Processed /\ Succeeded /\ places(Get(glicko)) = 2 /\ Get(glicko).rdCeiling = FInt(350)
          /\ last.player.rating = Dec(103414, 2) /\ last.player.rd = Dec(31130, 2)
          /\ last.matchs = Some(<<Won>>) /\ last.days = Some(FInt(60)))
        => (last.ret.rating = Dec(126313, 2) /\ last.ret.rd = Dec(25032, 2))

\* Inflation changed the rd the period started from, and the rating returned
\* is neither the one the rounded new rd nor the one the prior rd would give.
C22_Witness ==
    /\ Processed /\ Succeeded /\ ~NoMatches /\ PositiveDays
    /\ PeriodStart.rd # last.player.rd
    /\ last.ret.rating # RatingFrom(PeriodStart.rating, last.ret.rd, PerformanceSum(PeriodStart))
    /\ last.ret.rating # RatingFrom(PeriodStart.rating, PeriodStart.rd, PerformanceSum(PeriodStart))
    /\ last.ret.rating # RatingFrom(PeriodStart.rating, last.player.rd, PerformanceSum(last.player))
(***************************************************************************)
(* C23                                                                     *)
(***************************************************************************)
SummedInformation == last.method = "sumMatchVarianceFactors"
SummedPerformance == last.method = "sumWeightedScorePerformance"

\* C23: sumMatchVarianceFactors and sumWeightedScorePerformance raise
\* InvalidState whenever the subject's rd is <= 0, for every match list, the
\* empty one included; for the empty list and a positive rd they return 0.
C23_SumsRejectNonPositiveRd ==
    (SummedInformation \/ SummedPerformance)
    => /\ last.player.rd.m <= 0 => InvalidState(last.err)
       /\ (last.player.rd.m > 0 /\ Len(Get(last.matchs)) = 0)
            => (Succeeded /\ last.val = F0)

\* The information sum of an empty list was asked for a subject of rd <= 0,
\* and the call threw.
C23_Witness ==
    /\ SummedInformation
    /\ last.player.rd.m <= 0 /\ Len(Get(last.matchs)) = 0
    /\ InvalidState(last.err)
(***************************************************************************)
(* C24                                                                     *)
(***************************************************************************)
CalculatedNewRD == last.method = "calculateNewRD"

\* C24: calculateNewRD raises InvalidState whenever priorRd <= 0, also when
\* informationSum <= 0 (the RD check comes first); for priorRd > 0 and
\* informationSum <= 0 it returns exactly priorRd.
C24_NewRdRejectsNonPositiveRd ==
    CalculatedNewRD
    => /\ last.player.rd.m <= 0 => InvalidState(last.err)
       /\ (last.player.rd.m > 0 /\ last.sum.m <= 0)
            => (Succeeded /\ last.val = last.player.rd)

\* calculateNewRD was called with a non-positive RD and a non-positive sum,
\* and threw.
C24_Witness ==
    /\ CalculatedNewRD
    /\ last.player.rd.m <= 0 /\ last.sum.m <= 0
    /\ InvalidState(last.err)
(***************************************************************************)
(* C25                                                                     *)
(***************************************************************************)
\* 1 / sqrt(1/priorRd^2 + q^2 * informationSum)
NewRdFormula(priorRd, informationSum) ==
    FDiv(F1, FSqrt(FAdd(FDiv(F1, FSq(priorRd)),
                        FMul(FSq(Get(glicko).q), informationSum))))

\* The latest call, calculateNewRD with a positive RD and a positive sum,
\* returned the formula's value, below the prior RD, and a larger sum gives
\* a smaller value.
ShrinksWithInformation ==
    /\ Succeeded
    /\ Agree(last.val, NewRdFormula(last.player.rd, last.sum))
    /\ FLt(last.val, last.player.rd)
    /\ \A sum \in SumInputs :
          FLt(last.sum, sum)
          => FLt(calculateNewRD(Get(glicko), last.player.rd, sum).val, last.val)

SomeMatchCounted ==
    Processed /\ Succeeded /\ ~NoMatches /\ Len(Valid(Get(last.matchs))) >= 1

\* C25 as stated: for priorRd > 0 and informationSum > 0 calculateNewRD
\* returns 1/sqrt(1/priorRd^2 + q^2 * informationSum), strictly less than
\* priorRd and strictly decreasing in informationSum; hence processGameResults
\* with at least one match that is not skipped never returns an rd above the
\* period-start rd.
C25_NeverAbovePeriodStart ==
    /\ (CalculatedNewRD /\ last.player.rd.m > 0 /\ last.sum.m > 0) => ShrinksWithInformation
    /\ SomeMatchCounted => FLe(last.ret.rd, PeriodStart.rd)

\* C25, amended: as stated for calculateNewRD; processGameResults with at
\* least one match that is not skipped never returns an rd above the
\* period-start rd rounded to roundingPrecision, and there is no lower floor.
C25_NeverAboveRoundedPeriodStart ==
    /\ (CalculatedNewRD /\ last.player.rd.m > 0 /\ last.sum.m > 0) => ShrinksWithInformation
    /\ SomeMatchCounted
        => FLe(last.ret.rd, roundToDecimalPlaces(PeriodStart.rd, places(Get(glicko))))

\* Games were counted and the rd returned is below the period-start rd.
C25_Witness ==
    /\ SomeMatchCounted
    /\ FLt(last.ret.rd, PeriodStart.rd)
    /\ FLt(last.ret.rd, Get(glicko).initialRD)
(***************************************************************************)
(* C26                                                                     *)
(***************************************************************************)
\* The latest call was given matches, every one against an opponent of
\* rd <= 0, and the period started from a positive rd.
OnlySkippedMatches ==
    /\ Processed /\ ~NoMatches
    /\ Len(Valid(Get(last.matchs))) = 0
    /\ PeriodStart.rd.m > 0

\* C26: a non-empty match list whose opponents all have rd <= 0, with a
\* positive period-start rd, does not raise; the call returns the
\* period-start rating and rd rounded to roundingPrecision, and still stamps
\* lastPlayedMatch with the current time.
C26_AllSkippedStillStamps ==
    OnlySkippedMatches
    => /\ Succeeded
       /\ last.ret.rating = roundToDecimalPlaces(PeriodStart.rating, places(Get(glicko)))
       /\ last.ret.rd = roundToDecimalPlaces(PeriodStart.rd, places(Get(glicko)))
       /\ last.ret.lastPlayedMatch = Some(last.at)

\* A never-played subject with unrounded values met only a skipped opponent:
\* the record came back rounded and stamped.
C26_Witness ==
    /\ OnlySkippedMatches /\ Succeeded
    /\ NeverPlayed
    /\ ~Rounded(last.player.rating) /\ ~Rounded(last.player.rd)
    /\ last.ret.rating # last.player.rating
    /\ IsPresent(last.ret.lastPlayedMatch)
    /\ last.warns > 0
(***************************************************************************)
(* C27                                                                     *)
(***************************************************************************)
\* C27: presence of lastPlayedMatch is monotone.  A record that has it keeps
\* it through every sequence of successful updateRDForInactivity and
\* processGameResults calls, and a record without it acquires one only
\* through processGameResults with a non-empty match list.
C27_LastPlayedMatchStays ==
    /\ IsPresent(origin.lastPlayedMatch) => IsPresent(player.lastPlayedMatch)
    /\ ((Inflated \/ Processed) /\ Succeeded /\ ~NeverPlayed)
        => IsPresent(last.ret.lastPlayedMatch)
    /\ ((Inflated \/ Processed) /\ Succeeded /\ NeverPlayed
          /\ IsPresent(last.ret.lastPlayedMatch))
        => (Processed /\ ~NoMatches)

\* A record that started without lastPlayedMatch acquired one in an earlier
\* processGameResults call and kept it through a later inflation.
C27_Witness ==
    /\ ~IsPresent(origin.lastPlayedMatch)
    /\ calls >= 2
    /\ Inflated /\ Succeeded /\ PositiveDays
    /\ ~NeverPlayed
    /\ IsPresent(player.lastPlayedMatch)
(***************************************************************************)
(* C28                                                                     *)
(***************************************************************************)
\* C28 as stated: RD positivity is preserved.  Under every accepted
\* configuration a successful updateRDForInactivity or processGameResults
\* call on a record of rd > 0 returns a record of rd > 0, so that a history
\* that began with rd > 0 never has processGameResults raise InvalidState
\* for the subject's RD.
C28_RdStaysPositive ==
    /\ ((Inflated \/ Processed) /\ Succeeded /\ last.player.rd.m > 0) => last.ret.rd.m > 0
    /\ (Processed /\ origin.rd.m > 0) => ~InvalidState(last.err)

\* Half a unit of the last rounded decimal: what rounds to 0 is below it
HalfStep == FDiv(Dec(5, 1), FInt(Pow10(places(Get(glicko)))))

\* The unrounded new rd of the latest processGameResults call
NewRdUnrounded ==
    calculateNewRD(Get(glicko), PeriodStart.rd, InformationSum(PeriodStart)).val

\* Nothing on the way of the latest call rounds to 0: not the rd passed in,
\* not the ceiling when inflation runs, not the new rd when matches are given.
RoundsAboveZero ==
    /\ FLe(HalfStep, last.player.rd)
    /\ (Inflated \/ PositiveDays) => FLe(HalfStep, Get(glicko).rdCeiling)
    /\ (Processed /\ ~NoMatches) => FLe(HalfStep, NewRdUnrounded)

\* C28, amended: a successful call on a record of rd > 0 returns rd >= 0,
\* and rd > 0 when nothing rounds to 0 on the way: the rd passed in and,
\* where it applies, rdCeiling and the unrounded new rd are at least half a
\* unit of the last rounded decimal.  processGameResults raises InvalidState
\* only for a period-start rd <= 0.
C28_RdStaysPositiveUnlessRoundedAway ==
    /\ ((Inflated \/ Processed) /\ Succeeded /\ last.player.rd.m > 0)
        => /\ last.ret.rd.m >= 0
           /\ RoundsAboveZero => last.ret.rd.m > 0
    /\ (Processed /\ InvalidState(last.err)) => (~NoMatches /\ PeriodStart.rd.m <= 0)

\* The second successful call of a history that began with rd > 0 processed
\* games and returned a smaller, positive rd.
C28_Witness ==
    /\ calls >= 2 /\ origin.rd.m > 0
    /\ Processed /\ Succeeded /\ ~NoMatches /\ RoundsAboveZero
    /\ last.ret.rd.m > 0 /\ FLt(last.ret.rd, origin.rd)
(***************************************************************************)
(* C29                                                                     *)
(***************************************************************************)
\* The same games with another record in `player` and another date
Relabelled(matchs, subject, datePlayed) ==
    [i \in 1..Len(matchs) |-> Labelled(matchs[i], subject, datePlayed)]

SameRatingAndRd(a, b) ==
    /\ a.err = b.err
    /\ a.err = "" => (a.ret.rating = b.ret.rating /\ a.ret.rd = b.ret.rd)

\* C29: the rating and rd processGameResults returns depend only on the
\* configuration, the state, the days, and each match's opponent rating,
\* opponent rd and score: a call that differs only in the matches' player
\* records or datePlayed returns the same rating and rd.
C29_PlayerRecordAndDateIgnored ==
    (Processed /\ IsPresent(last.matchs))
    => \A subject \in {NoPlayer, Player(FInt(2600), FInt(-50), Some(7))}, datePlayed \in {0, 9} :
          SameRatingAndRd(last,
              processGameResults(Get(glicko), last.player,
                  Some(Relabelled(Get(last.matchs), subject, datePlayed)),
                  last.days, last.at))

\* Games carrying a player record that is not the subject's, and dates,
\* were processed and changed the rating.
C29_Witness ==
    /\ Processed /\ Succeeded /\ IsPresent(last.matchs)
    /\ Len(Get(last.matchs)) = 3
    /\ Get(last.matchs)[1].player # last.player
    /\ Get(last.matchs)[1].player # NoPlayer
    /\ Get(last.matchs)[1].datePlayed # Get(last.matchs)[2].datePlayed
    /\ last.ret.rating # last.player.rating
(***************************************************************************)
(* C30                                                                     *)
(***************************************************************************)
\* The match lists that are permutations of matchs
PermutationsOf(matchs) ==
    { [i \in 1..Len(matchs) |-> matchs[p[i]]] : p \in Permutations(1..Len(matchs)) }

SameUpToSummation(a, b) ==
    /\ a.err = b.err
    /\ a.warns = b.warns
    /\ a.err = "" => (Agree(a.ret.rating, b.ret.rating) /\ Agree(a.ret.rd, b.ret.rd))

====
